---- MODULE Spec2Model ----
(***************************************************************************)
(* Verification model of the fan-platform feed core: optimistic like /     *)
(* bookmark / comment-like toggles, feed pagination, the feed-card /       *)
(* lightbox player coordination, logout, comment loading and posting, and  *)
(* deep-link resolution.                                                   *)
(*                                                                         *)
(* The repository holds several near-duplicate implementations.  The       *)
(* variable impl selects the family a behaviour runs:                      *)
(*   "component" : feed-component.js (unnamed/part_012) with stores.js     *)
(*                 (unnamed/part_005) and src/player.js                    *)
(*   "complete"  : modules/feed/complete.js with InteractionsManager,     *)
(*                 CommentsManager, FeedState and utils/video.js           *)
(*   "index"     : modules/feed/index.js, the page that spreads a          *)
(*                 FeedState instance into the Alpine component, and the   *)
(*                 managers it calls directly (CommentsManager,            *)
(*                 InteractionsManager.handleDeepLink)                     *)
(* Every asynchronous function is split at its await: one action for the   *)
(* synchronous prefix that issues the request, one for the continuation    *)
(* after the response, one for the catch block.                            *)
(***************************************************************************)
EXTENDS Integers, Sequences, FiniteSets, TLC

\* ---- bounds of the model ------------------------------------------------
MaxToggles == 3      \* toggle invocations per behaviour
MaxLoads == 4        \* loadFeed invocations per behaviour
MaxPages == 2        \* non-empty pages the server can hold
PerPage == 2         \* posts on a full page (per_page, scaled down)
NumVideos == 3       \* video posts mounted in the feed
MaxPendingOpens == 1 \* openLightbox calls suspended at their await
MaxPendingCloses == 1 \* closeLightbox calls waiting out the settle delay
MaxComments == 1     \* postComment invocations per behaviour
MaxCommentLoads == 2 \* comment-load invocations per behaviour
MaxCommentReqs == 2  \* comment operations the viewer starts per behaviour
MaxDrawerCalls == 3   \* openDrawer and closeDrawer calls per behaviour
NumCards == 2         \* notification cards in the drawer
MaxInits == 2        \* calls of init() and refresh() per behaviour

MaxStorageOps == 3   \* calls to the StorageManager per behaviour
StorageQuota == 3    \* entries localStorage holds before a write hits the quota
MaxTimers == 2        \* rate-limit intervals triggerError keeps alive at once
MaxFailures == 1     \* comment requests that fail per behaviour
CountdownStart == 2  \* seconds of the rate-limit countdown (20, scaled down)

\* ---- program values -----------------------------------------------------
\* JavaScript `undefined` for a comment whose likes_count field is absent
undefined == -1

Impls == {"component", "complete", "index"}

VARIABLES
  impl,        \* implementation family, fixed at Init
  post,        \* the post being toggled: [is_liked, likes_count, is_bookmarked]
  comment,     \* the comment being toggled: [is_liked, likes_count]
  initial,     \* the values post and comment had when the page loaded
  calls,       \* toggle invocations, in invocation order
  resolved,    \* indices of calls, in the order their requests settled
  lastPage,    \* server: pages 1..lastPage are non-empty, later ones empty
  feed,        \* this.feed, as the sequence of post ids
  page,        \* this.page, the pagination cursor
  hasMore,     \* this.hasMore
  isLoadingMore, \* this.isLoadingMore (read and written by index.js only)
  loads,       \* loadFeed invocations, in invocation order
  subscribed,  \* this.user.subscribed
  players,     \* this.players: the state of the feed player of each video post
  intersecting, \* the last entry.isIntersecting the observer of a post delivered
  lightbox,    \* Alpine.store('app').lightbox
  opening,     \* posts of the openLightbox calls suspended at `await openComments`
  closing,     \* closeLightbox calls suspended at the 350 ms settle delay
  isDrawerOpen, \* this.isDrawerOpen
  activePost,  \* this.activePost
  popup,       \* this.popup
  authToken,   \* whether localStorage holds the authToken entry
  commentsLoaded, \* post.commentsLoaded of the post whose comments are shown
  comments,    \* post.comments of that post, as the sequence of comment ids
  commentUsers, \* post.commentUsers of that post, as the set of author ids
  comments_count, \* post.comments_count of that post
  serverComments, \* server: the number of comments stored for that post
  resets,      \* how often commentsLoaded was set back to false
  commentReqs, \* comment-load invocations on that post, in invocation order
  link,        \* the deep-link resolution: where it stands and what it found
  hasQuery,    \* whether window.location still carries the query parameters
  authManager, \* whether window.authManager exists on the page
  text,        \* Alpine.store('input').text, as a sequence of characters
  profiles,    \* whether localStorage holds the userData and creatorData entries
  timers,      \* the countdowns of the live rate-limit intervals
  isAvailable,    \* StorageManager.isAvailable
  quotaExceeded,  \* StorageManager.quotaExceeded
  memoryStorage,  \* StorageManager._memoryStorage
  localStorage,   \* the browser's localStorage: what each key holds
  storageLog,     \* the calls made to the StorageManager, with what they returned
  manager,        \* the AuthManager: its fields and where its init() stands
  globals,        \* window.currentUser and window.isAdmin, as set or not
  currentFolder,  \* AuthManager.currentFolder, the first segment of the path
  href,           \* where window.location.href was sent, if anywhere
  notifications,  \* the NotificationManager: isDrawerOpen and the classes set
  animationTimeouts, \* NotificationManager.animationTimeouts: the live timers
  drawerLog       \* the openDrawer and closeDrawer calls, in order

toggleVars == <<post, comment, initial, calls, resolved>>

feedVars == <<lastPage, feed, page, hasMore, isLoadingMore, loads>>

playerVars == <<subscribed, players, intersecting, lightbox, opening, closing,
                isDrawerOpen, activePost, popup>>

commentVars == <<commentsLoaded, comments, commentUsers, comments_count,
                 serverComments, resets, commentReqs>>

linkVars == <<link, hasQuery>>

sideVars == <<text, profiles, timers>>

storageVars == <<isAvailable, quotaExceeded, memoryStorage, localStorage, storageLog>>

authVars == <<manager, globals, currentFolder, href>>

drawerVars == <<notifications, animationTimeouts, drawerLog>>

pageVars == <<authVars, drawerVars>>

coreVars == <<storageVars, pageVars>>

vars == <<impl, authManager, authToken, toggleVars, feedVars, playerVars,
          commentVars, linkVars, sideVars, coreVars>>

\* ==== Posts ==============================================================

\* `null` where a post is expected (lightbox.post, activePost)
NoPost == -1

\* the feed of the player model: video posts 1..NumVideos and image post 0
VideoPosts == 1..NumVideos
PostIds == 0..NumVideos

content_type(id) == IF id \in VideoPosts THEN "video" ELSE "image"

\* post.paid: video 1 is premium content
paid(id) == id = 1

ClosedLightbox == [show |-> FALSE, url |-> NoPost, type |-> "", post |-> NoPost,
                   player |-> "none"]

HiddenPopup ==
  [show |-> FALSE, header |-> "", btnText |-> "", isLocked |-> FALSE,
   btnAction |-> "none"]

\* the component before any player is mounted; nothing is on screen yet
PlayersIdle(sub) ==
  /\ subscribed = sub
  /\ players = [id \in VideoPosts |-> "none"]
  /\ intersecting = [id \in VideoPosts |-> FALSE]
  /\ lightbox = ClosedLightbox
  /\ opening = <<>>
  /\ closing = 0
  /\ isDrawerOpen = FALSE
  /\ activePost = NoPost
  /\ popup = HiddenPopup

\* no comment of the post was requested yet; the server holds n comments
CommentsIdle(n, count) ==
  /\ commentsLoaded = FALSE
  /\ comments = <<>>
  /\ commentUsers = {}
  /\ comments_count = count
  /\ serverComments = n
  /\ resets = 0
  /\ commentReqs = <<>>

\* the keys of localStorage: the three entries of the session, and others
EssentialKeys == {"authToken", "userData", "creatorData"}

StorageKeys == EssentialKeys \cup {"theme"}

\* what a key holds, or what a read returns: a string, or null
null == [present |-> FALSE, val |-> ""]

Str(v) == [present |-> TRUE, val |-> v]

\* a StorageManager that nothing has called yet, over an empty localStorage
StorageIdle ==
  /\ isAvailable = TRUE
  /\ quotaExceeded = FALSE
  /\ memoryStorage = [created |-> FALSE, items |-> [k \in StorageKeys |-> null]]
  /\ localStorage = [k \in StorageKeys |-> null]
  /\ storageLog = <<>>

\* an AuthManager that nothing has called yet, on the feed page
AuthIdle ==
  /\ manager = [user |-> FALSE, isAuthenticated |-> FALSE, isAdmin |-> FALSE,
                initialized |-> FALSE, pc |-> "idle", outcome |-> "none",
                adminCheck |-> "none", calls |-> 0]
  /\ globals = [currentUser |-> FALSE, isAdmin |-> FALSE]
  /\ currentFolder = "membership"
  /\ href = "none"

\* the notification drawer as the page loads: closed, no card animated
DrawerIdle ==
  /\ notifications = [isDrawerOpen |-> FALSE, isopen |-> FALSE,
                      active |-> [c \in 1..NumCards |-> FALSE]]
  /\ animationTimeouts = {}
  /\ drawerLog = <<>>

CoreIdle == StorageIdle /\ AuthIdle /\ DrawerIdle

\* a signed-in session: the token and the cached profiles are stored, the
\* input is empty, no rate-limit interval runs
SignedIn(mgr) ==
  /\ CoreIdle
  /\ authManager = mgr
  /\ authToken = TRUE
  /\ profiles = TRUE
  /\ text = <<>>
  /\ timers = <<>>

\* a page opened without deep-link parameters
NoQuery ==
  /\ link = [pc |-> "none", contentId |-> NoPost, post |-> NoPost, feed0 |-> <<>>,
             error |-> "none"]
  /\ hasQuery = FALSE

\* a page opened without deep-link parameters, in a signed-in session, with
\* window.authManager set up
NoLink == NoQuery /\ SignedIn(TRUE)

\* ==== Optimistic toggles =================================================

Pending == {i \in DOMAIN calls : calls[i].status = "pending"}

\* `x || 0`
OrZero(x) == IF x = undefined THEN 0 ELSE x

\* an optimistic update that counts a like whichever way the flag goes
CountsUp(p) ==
  [p EXCEPT !.is_liked = ~p.is_liked, !.likes_count = p.likes_count + 1]

\* post.is_liked = !prev; post.likes_count += post.is_liked ? 1 : -1
FlipLike(p) ==
  [p EXCEPT !.is_liked = ~p.is_liked,
            !.likes_count = p.likes_count + (IF ~p.is_liked THEN 1 ELSE -1)]

\* a rollback that re-flips whatever is displayed at failure time
ReflipLike(p, prev, prevCount) == FlipLike(p)

\* catch: post.is_liked = prev; post.likes_count = prevCount
RestoreLike(p, prev, prevCount) ==
  [p EXCEPT !.is_liked = prev, !.likes_count = prevCount]

\* a rollback that re-flips the bookmark flag found at failure time
ReflipBookmark(p, prev) == [p EXCEPT !.is_bookmarked = ~p.is_bookmarked]

\* catch: post.is_bookmarked = prev
RestoreBookmark(p, prev) == [p EXCEPT !.is_bookmarked = prev]

\* the count captured by toggleCommentLike: `comment.likes_count` in
\* feed-component.js, `comment.likes_count || 0` in CommentsManager
CapturedCommentCount(c) ==
  IF impl = "component" THEN c.likes_count ELSE OrZero(c.likes_count)

\* comment.is_liked = !prev; comment.likes_count = (prevCount || 0) + (is_liked ? 1 : -1)
FlipCommentLike(c) ==
  [c EXCEPT !.is_liked = ~c.is_liked,
            !.likes_count = OrZero(c.likes_count) + (IF ~c.is_liked THEN 1 ELSE -1)]

\* a rollback that re-flips the comment found at failure time
ReflipCommentLike(c, prev, prevCount) == FlipCommentLike(c)

\* catch: comment.is_liked = prev; comment.likes_count = prevCount
RestoreCommentLike(c, prev, prevCount) ==
  [c EXCEPT !.is_liked = prev, !.likes_count = prevCount]

NewCall(kind, prev, prevCount, sent) ==
  [kind |-> kind, prev |-> prev, prevCount |-> prevCount, sent |-> sent,
   status |-> "pending", overlap |-> Pending]

\* toggleLike(post), up to the point the request is in flight
toggleLike ==
  /\ Len(calls) < MaxToggles
  /\ post' = FlipLike(post)
  /\ calls' = Append(calls,
       NewCall("like", post.is_liked, post.likes_count, ~post.is_liked))
  /\ UNCHANGED <<impl, authManager, coreVars, sideVars, authToken, commentVars, linkVars, comment, initial, resolved, feedVars, playerVars>>

\* toggleBookmark(post), up to the point the request is in flight
toggleBookmark ==
  /\ Len(calls) < MaxToggles
  /\ post' = [post EXCEPT !.is_bookmarked = ~post.is_bookmarked]
  /\ calls' = Append(calls,
       NewCall("bookmark", post.is_bookmarked, 0, ~post.is_bookmarked))
  /\ UNCHANGED <<impl, authManager, coreVars, sideVars, authToken, commentVars, linkVars, comment, initial, resolved, feedVars, playerVars>>

\* toggleCommentLike(comment), up to the point the request is in flight
toggleCommentLike ==
  /\ Len(calls) < MaxToggles
  /\ comment' = FlipCommentLike(comment)
  /\ calls' = Append(calls,
       NewCall("commentLike", comment.is_liked, CapturedCommentCount(comment),
               ~comment.is_liked))
  /\ UNCHANGED <<impl, authManager, coreVars, sideVars, authToken, commentVars, linkVars, post, initial, resolved, feedVars, playerVars>>

\* the request of some pending call succeeds: nothing further is done
toggleSucceeds ==
  \E i \in Pending :
    /\ calls' = [calls EXCEPT ![i].status = "ok"]
    /\ resolved' = Append(resolved, i)
    /\ UNCHANGED <<impl, authManager, coreVars, sideVars, authToken, commentVars, linkVars, post, comment, initial, feedVars, playerVars>>

\* the request of some pending call fails: the catch block of that
\* invocation runs with the values it closed over
toggleFails ==
  \E i \in Pending :
    /\ calls' = [calls EXCEPT ![i].status = "failed"]
    /\ resolved' = Append(resolved, i)
    /\ post' = CASE calls[i].kind = "like" ->
                      RestoreLike(post, calls[i].prev, calls[i].prevCount)
                 [] calls[i].kind = "bookmark" ->
                      RestoreBookmark(post, calls[i].prev)
                 [] OTHER -> post
    /\ comment' = IF calls[i].kind = "commentLike"
                  THEN RestoreCommentLike(comment, calls[i].prev, calls[i].prevCount)
                  ELSE comment
    /\ UNCHANGED <<impl, authManager, coreVars, sideVars, authToken, commentVars, linkVars, initial, feedVars, playerVars>>

\* like counts a post can arrive with
InitLikeCounts == {0, 10}

\* posts as the feed delivers them; toggleBookmark only negates the flag, so
\* the bookmarked start is the mirror image of the unbookmarked one
InitPosts ==
  {p \in [is_liked : BOOLEAN, likes_count : InitLikeCounts, is_bookmarked : {FALSE}] :
     p.is_liked => p.likes_count > 0}

InitComments ==
  {c \in [is_liked : BOOLEAN, likes_count : {undefined, 0, 1}] :
     c.is_liked <=> c.likes_count > 0}

\* state of the toggles before any toggle was invoked
TogglesIdle(p, c) ==
  /\ post = p
  /\ comment = c
  /\ initial = [post |-> p, comment |-> c]
  /\ calls = <<>>
  /\ resolved = <<>>

\* new FeedState() / the component's initial fields; the server is fixed
FeedIdle(n) ==
  /\ lastPage = n
  /\ feed = <<>>
  /\ page = 1
  /\ hasMore = TRUE
  /\ isLoadingMore = FALSE
  /\ loads = <<>>

\* the toggles are written once in feed-component.js and once in the managers
\* that both complete.js and the spread page call
InitToggle ==
  /\ impl \in {"component", "complete"}
  /\ \E p \in InitPosts, c \in InitComments : TogglesIdle(p, c)
  /\ FeedIdle(0)
  /\ PlayersIdle(FALSE)
  /\ CommentsIdle(0, 0)
  /\ NoLink

NextToggle ==
  \/ toggleLike
  \/ toggleBookmark
  \/ toggleCommentLike
  \/ toggleSucceeds
  \/ toggleFails

SpecToggle == InitToggle /\ [][NextToggle]_vars

\* ---- claims about the toggles --------------------------------------------

Max(S) == CHOOSE x \in S : \A y \in S : y <= x

\* the interleaving of C1: two like toggles on a post that starts at
\* (false, 10), B invoked while A's request is in flight, no other toggle
ScenarioAB ==
  /\ initial.post.is_liked = FALSE
  /\ initial.post.likes_count = 10
  /\ Len(calls) = 2
  /\ calls[1].kind = "like"
  /\ calls[2].kind = "like"
  /\ 1 \in calls[2].overlap

AFailedFirst == Len(resolved) >= 1 /\ resolved[1] = 1 /\ calls[1].status = "failed"

\* C1: from (is_liked=false, likes_count=10), toggle A, toggle B before A
\* resolves, A fails, then B succeeds: right after A's failure the post shows
\* A's captured pre-state (false, 10), never (true, 11), and the final state
\* is (false, 10).
C1_ReconciliationSnapshot ==
  (ScenarioAB /\ AFailedFirst) =>
     /\ (resolved = <<1>> =>
           post.is_liked = FALSE /\ post.likes_count = 10)
     /\ ((resolved = <<1, 2>> /\ calls[2].status = "ok") =>
           post.is_liked = FALSE /\ post.likes_count = 10)

C1_Witness ==
  /\ ScenarioAB
  /\ resolved = <<1, 2>>
  /\ calls[1].status = "failed"
  /\ calls[2].status = "ok"
  /\ post.is_liked = FALSE
  /\ post.likes_count = 10

\* call i settles as a failure in this step
FailsNow(i) == calls[i].status = "pending" /\ calls'[i].status = "failed"

\* C2: when the request of a like, bookmark or comment-like toggle fails, the
\* flag (and for likes the count) becomes exactly what that same invocation
\* captured before its optimistic flip, whatever was invoked or resolved in
\* between.
C2_RollbackOwnSnapshot ==
  [][\A i \in DOMAIN calls :
       FailsNow(i) =>
         /\ calls[i].kind = "like" =>
              /\ post'.is_liked = calls[i].prev
              /\ post'.likes_count = calls[i].prevCount
         /\ calls[i].kind = "bookmark" =>
              post'.is_bookmarked = calls[i].prev
         /\ calls[i].kind = "commentLike" =>
              /\ comment'.is_liked = calls[i].prev
              /\ comment'.likes_count = calls[i].prevCount]_vars

\* a bookmark toggle has just failed after a later bookmark toggle was invoked
\* while it was in flight, so a re-flip and the snapshot differ
C2_Witness ==
  \E i, j \in DOMAIN calls :
     /\ i < j
     /\ calls[i].kind = "bookmark"
     /\ calls[j].kind = "bookmark"
     /\ i \in calls[j].overlap
     /\ calls[i].status = "failed"
     /\ calls[j].status = "pending"
     /\ resolved[Len(resolved)] = i
     /\ post.is_bookmarked = calls[i].prev

OkCalls(kind) == {i \in DOMAIN calls : calls[i].kind = kind /\ calls[i].status = "ok"}

\* the flag the server holds: the value sent by the last toggle whose request
\* succeeded, the initial value if none did
ServerFlag(kind, init) ==
  IF OkCalls(kind) = {} THEN init ELSE calls[Max(OkCalls(kind))].sent

\* C8: after overlapping like / bookmark toggles have all resolved, the
\* displayed flag equals the value requested by the last toggle that
\* succeeded (the initial value if none succeeded) and the like count is
\* consistent with that flag.
C8_TogglesMatchServerTruth ==
  (Pending = {}) =>
     /\ post.is_liked = ServerFlag("like", initial.post.is_liked)
     /\ post.is_bookmarked = ServerFlag("bookmark", initial.post.is_bookmarked)
     /\ post.likes_count =
          initial.post.likes_count
            + (IF post.is_liked = initial.post.is_liked THEN 0
               ELSE IF post.is_liked THEN 1 ELSE -1)

\* ==== Feed pagination ====================================================

\* what the server returns for a page: PerPage post ids, or nothing
PageContent(p) ==
  IF p <= lastPage THEN [k \in 1..PerPage |-> (p - 1) * PerPage + k] ELSE <<>>

PendingLoads == {i \in DOMAIN loads : loads[i].status = "pending"}

\* loadFeed invocations that reached the network
NetCalls == {i \in DOMAIN loads : loads[i].status # "noop"}

\* a loadFeed that fetches even when hasMore is false
ReturnsEarlyIgnoringHasMore == impl = "index" /\ isLoadingMore

\* `if (!this.hasMore) return;` in feed-component.js and complete.js,
\* `if (!this.hasMore || this.isLoadingMore) return;` in index.js
ReturnsEarly ==
  \/ ~hasMore
  \/ impl = "index" /\ isLoadingMore

\* a handler that leaves the in-flight flag as it finds it
KeepFlag(flag) == flag

\* `finally { this.isLoadingMore = false; }` of index.js; the other two
\* implementations never touch the flag
FinallyFlag(flag) == IF impl = "index" THEN FALSE ELSE flag

\* this.feed = [...this.feed, ...mapped]  /  FeedState.addPosts
addPosts(f, posts) == f \o posts

\* loadFeed(), up to its await: early return, or the request for this.page
loadFeed ==
  /\ Len(loads) < MaxLoads
  /\ IF ReturnsEarly
     THEN /\ loads' = Append(loads, [page |-> page, status |-> "noop",
                                     error |-> "none", sawHasMore |-> hasMore])
          /\ UNCHANGED isLoadingMore
     ELSE /\ loads' = Append(loads, [page |-> page, status |-> "pending",
                                     error |-> "none", sawHasMore |-> hasMore])
          /\ isLoadingMore' = IF impl = "index" THEN TRUE ELSE isLoadingMore
  /\ UNCHANGED <<impl, authManager, coreVars, sideVars, authToken, commentVars, linkVars, toggleVars, playerVars, lastPage, feed, page, hasMore>>

\* the page request of some pending loadFeed resolves with a non-empty page, in
\* feed-component.js and complete.js: append, then this.page++
loadFeedAppends ==
  \E i \in PendingLoads :
    /\ impl \in {"component", "complete"}
    /\ PageContent(loads[i].page) # <<>>
    /\ feed' = addPosts(feed, PageContent(loads[i].page))
    /\ page' = page + 1
    /\ loads' = [loads EXCEPT ![i].status = "appended"]
    /\ isLoadingMore' = FinallyFlag(isLoadingMore)
    /\ UNCHANGED <<impl, authManager, coreVars, sideVars, authToken, commentVars, linkVars, toggleVars, playerVars, lastPage, hasMore>>

\* the same response in index.js: the component is built with `...state`,
\* which copies the own fields of the FeedState instance but not the methods
\* of its prototype, so `this.addPosts(posts)` throws a TypeError inside the
\* try block; the catch logs it, `this.page++` is never reached
loadFeedThrows ==
  \E i \in PendingLoads :
    /\ impl = "index"
    /\ PageContent(loads[i].page) # <<>>
    /\ loads' = [loads EXCEPT ![i].status = "typeerror", ![i].error = "logged"]
    /\ isLoadingMore' = FinallyFlag(isLoadingMore)
    /\ UNCHANGED <<impl, authManager, coreVars, sideVars, authToken, commentVars, linkVars, toggleVars, playerVars, lastPage, feed, page, hasMore>>

\* the page request resolves with an empty page: this.hasMore = false
loadFeedEmpty ==
  \E i \in PendingLoads :
    /\ PageContent(loads[i].page) = <<>>
    /\ hasMore' = FALSE
    /\ loads' = [loads EXCEPT ![i].status = "empty"]
    /\ isLoadingMore' = FinallyFlag(isLoadingMore)
    /\ UNCHANGED <<impl, authManager, coreVars, sideVars, authToken, commentVars, linkVars, toggleVars, playerVars, lastPage, feed, page>>

\* the page request rejects: the catch block writes the error to the console
\* (console.error / debugLog) and loadFeed returns normally
loadFeedFails ==
  \E i \in PendingLoads :
    /\ loads' = [loads EXCEPT ![i].status = "failed", ![i].error = "logged"]
    /\ isLoadingMore' = FinallyFlag(isLoadingMore)
    /\ UNCHANGED <<impl, authManager, coreVars, sideVars, authToken, commentVars, linkVars, toggleVars, playerVars, lastPage, feed, page, hasMore>>

InitFeed ==
  /\ impl \in Impls
  /\ \E n \in 0..MaxPages : FeedIdle(n)
  /\ TogglesIdle([is_liked |-> FALSE, likes_count |-> 0, is_bookmarked |-> FALSE],
                 [is_liked |-> FALSE, likes_count |-> 0])
  /\ PlayersIdle(FALSE)
  /\ CommentsIdle(0, 0)
  /\ NoLink

NextFeed ==
  \/ loadFeed
  \/ loadFeedAppends
  \/ loadFeedThrows
  \/ loadFeedEmpty
  \/ loadFeedFails

SpecFeed == InitFeed /\ [][NextFeed]_vars

\* ---- claims about pagination ---------------------------------------------

RECURSIVE ConcatPages(_)
\* the server's pages 1..n, concatenated in page order
ConcatPages(n) == IF n <= 0 THEN <<>> ELSE ConcatPages(n - 1) \o PageContent(n)

\* C3: while a loadFeed request is in flight every further loadFeed invocation
\* issues no request, so at most one page request is outstanding at any time
\* and no cursor value is requested by two overlapping calls.
C3_SingleFlight == Cardinality(PendingLoads) <= 1

\* C4: the feed (ignoring at most one deep-linked post at its front) is the
\* concatenation, in page order, of the server's pages 1..cursor-1, each
\* appended exactly once.
C4_FeedIsPagePrefix ==
  \/ feed = ConcatPages(page - 1)
  \/ feed # <<>> /\ Tail(feed) = ConcatPages(page - 1)

EmptyPageReceived ==
  \E i \in DOMAIN loads : loads[i].status = "pending" /\ loads'[i].status = "empty"

\* C5: once a loadFeed receives an empty page hasMore is false, it stays false,
\* and no later loadFeed invocation reaches the network.
C5_HasMoreStaysFalse ==
  [][/\ EmptyPageReceived => hasMore' = FALSE
     /\ hasMore = FALSE => (hasMore' = FALSE /\ NetCalls' = NetCalls)]_vars

\* an empty page was received and a later invocation returned without a request
C5_Witness ==
  /\ hasMore = FALSE
  /\ \E i, j \in DOMAIN loads :
       /\ i < j
       /\ loads[i].status = "empty"
       /\ loads[j].status = "noop"
       /\ loads[j].sawHasMore = FALSE

LoadFailsNow(i) == loads[i].status = "pending" /\ loads'[i].status = "failed"

RequestIssuedNow ==
  /\ Len(loads') = Len(loads) + 1
  /\ loads'[Len(loads')].status = "pending"

C7_NoSwallowedError ==
  \A i \in DOMAIN loads :
     loads[i].status = "failed" => loads[i].error \in {"thrown", "handled"}

\* C27: with a server that returns each post on exactly one page, no two
\* entries of the feed have the same id, whatever page loads took place,
\* overlapping ones included.
C27_FeedIdsUnique ==
  \A i, j \in DOMAIN feed : i # j => feed[i] # feed[j]

\* ==== Feed players and lightbox ===========================================

\* a registry in which nothing is paused
pauseNone(pl, exceptId) == pl

\* this.players.forEach((p, id) => { if (id !== exceptId) p.pause(); })
pauseAllPlayers(pl, exceptId) ==
  [id \in DOMAIN pl |->
     IF id # exceptId /\ pl[id] = "playing" THEN "paused" ELSE pl[id]]

\* if (lb && exceptId !== 'lightbox') lb.pause();   (exceptLightbox is TRUE
\* when the caller passed 'lightbox')
pauseLightboxPlayer(lb, exceptLightbox) ==
  IF lb.player = "playing" /\ ~exceptLightbox THEN [lb EXCEPT !.player = "paused"] ELSE lb

\* player.play() followed by the player's 'play' listener:
\* pauseAll(post.id); post.isPlaying = true
PlayFeedPlayer(id) ==
  /\ players' = [pauseAllPlayers(players, id) EXCEPT ![id] = "playing"]
  /\ lightbox' = pauseLightboxPlayer(lightbox, FALSE)

\* an observer that starts the player whenever the element is visible
AutoplayIgnoringLightbox(isIntersecting) == isIntersecting

\* the test of the IntersectionObserver callback: player.js reads the lightbox
\* store (`entry.isIntersecting && !lightboxOpen`), VideoObserver.observe of
\* utils/video.js, which complete.js calls without onIntersect, only
\* `entry.isIntersecting`
Autoplays(isIntersecting) ==
  IF impl = "component" THEN isIntersecting /\ ~lightbox.show ELSE isIntersecting

\* the IntersectionObserver callback of the player of post id
ObserverCallback(id, isIntersecting) ==
  IF Autoplays(isIntersecting)
  THEN PlayFeedPlayer(id)
  ELSE /\ players' = [players EXCEPT ![id] = "paused"]
       /\ UNCHANGED lightbox

\* initPlayer(post): mounts the feed player, registers it and its observer;
\* the observer then delivers its first entry for the element, visible or not
initPlayer ==
  \E id \in VideoPosts, isIntersecting \in BOOLEAN :
    /\ players[id] = "none"
    /\ ~(paid(id) /\ ~subscribed)
    /\ intersecting' = [intersecting EXCEPT ![id] = isIntersecting]
    /\ ObserverCallback(id, isIntersecting)
    /\ UNCHANGED <<impl, authManager, coreVars, sideVars, authToken, commentVars, linkVars, toggleVars, feedVars, subscribed, opening, closing,
                   isDrawerOpen, activePost, popup>>

\* the element of a mounted player crosses the visibility threshold (scroll,
\* resize, layout shift) and its observer callback runs with the new entry
visibilityChanges ==
  \E id \in VideoPosts :
    /\ players[id] # "none"
    /\ intersecting' = [intersecting EXCEPT ![id] = ~intersecting[id]]
    /\ ObserverCallback(id, ~intersecting[id])
    /\ UNCHANGED <<impl, authManager, coreVars, sideVars, authToken, commentVars, linkVars, toggleVars, feedVars, subscribed, opening, closing,
                   isDrawerOpen, activePost, popup>>

\* triggerError('subscription')
SubscriptionPopup ==
  [show |-> TRUE, header |-> "Subscription Required", btnText |-> "Subscribe",
   isLocked |-> FALSE, btnAction |-> "subscribe"]

\* Alpine.store('app').openLightbox(post, players, appRef), up to
\* `Alpine.store('input').reset()` at the head of the components' openComments;
\* CommentsManager.loadComments does not touch the input
InputAfterOpen(t) == IF impl = "index" THEN t ELSE <<>>

\* `await appRef.openComments(post, true)`; openComments marks the post active
\* and opens the drawer before it awaits the comments
openLightbox ==
  \E id \in PostIds :
    IF paid(id) /\ ~subscribed
    THEN /\ popup' = SubscriptionPopup
         /\ UNCHANGED <<impl, authManager, coreVars, sideVars, authToken, commentVars, linkVars, toggleVars, feedVars, subscribed, players, intersecting,
                        lightbox, opening, closing, isDrawerOpen, activePost>>
    ELSE /\ Len(opening) < MaxPendingOpens
         /\ players' = pauseAllPlayers(players, NoPost)
         /\ lightbox' = [pauseLightboxPlayer(lightbox, FALSE) EXCEPT
                           !.type = content_type(id), !.url = id,
                           !.post = id, !.show = TRUE]
         /\ activePost' = id
         /\ isDrawerOpen' = TRUE
         /\ opening' = Append(opening, id)
         /\ text' = InputAfterOpen(text)
         /\ UNCHANGED <<impl, authManager, coreVars, profiles, timers, authToken, commentVars, linkVars, toggleVars, feedVars, subscribed, intersecting, closing,
                        popup>>

\* openLightbox after its await: `if (post.content_type === 'video')
\* appRef.initLightboxPlayer()`.  The lightbox player is created with
\* autoplay: true; when playback starts (the browser may refuse to autoplay)
\* its 'play' listener runs pauseAll('lightbox').
openLightboxResumes ==
  \E i \in DOMAIN opening, started \in BOOLEAN :
    /\ opening' = SubSeq(opening, 1, i - 1) \o SubSeq(opening, i + 1, Len(opening))
    /\ IF content_type(opening[i]) = "video"
       THEN /\ IF started
               THEN /\ lightbox' = [lightbox EXCEPT !.player = "playing"]
                    /\ players' = pauseAllPlayers(players, NoPost)
               ELSE /\ lightbox' = [lightbox EXCEPT !.player = "paused"]
                    /\ UNCHANGED players
       ELSE UNCHANGED <<lightbox, players>>
    /\ UNCHANGED <<impl, authManager, coreVars, sideVars, authToken, commentVars, linkVars, toggleVars, feedVars, subscribed, intersecting, closing,
                   isDrawerOpen, activePost, popup>>

\* the viewer presses play on the lightbox player's controls
lightboxPlay ==
  /\ lightbox.player = "paused"
  /\ lightbox' = [lightbox EXCEPT !.player = "playing"]
  /\ players' = pauseAllPlayers(players, NoPost)
  /\ UNCHANGED <<impl, authManager, coreVars, sideVars, authToken, commentVars, linkVars, toggleVars, feedVars, subscribed, intersecting, opening,
                 closing, isDrawerOpen, activePost, popup>>

\* the viewer pauses the lightbox player
lightboxPause ==
  /\ lightbox.player = "playing"
  /\ lightbox' = [lightbox EXCEPT !.player = "paused"]
  /\ UNCHANGED <<impl, authManager, coreVars, sideVars, authToken, commentVars, linkVars, toggleVars, feedVars, subscribed, players, intersecting,
                 opening, closing, isDrawerOpen, activePost, popup>>

\* the tail of closeLightbox: player.destroy(); player = null; show = false
DestroyAndHide(lb) == [lb EXCEPT !.player = "none", !.show = FALSE]

\* a close that never waits for the drawer
DrawerIgnored == FALSE

\* `if (appRef?.isDrawerOpen)`
DrawerIsOpen == isDrawerOpen

\* Alpine.store('app').closeLightbox(appRef): with the drawer open it closes
\* the drawer and suspends for 350 ms, otherwise it finishes at once
closeLightbox ==
  IF DrawerIsOpen
  THEN /\ closing < MaxPendingCloses
       /\ isDrawerOpen' = FALSE
       /\ closing' = closing + 1
       /\ UNCHANGED <<impl, authManager, coreVars, sideVars, authToken, commentVars, linkVars, toggleVars, feedVars, subscribed, players, intersecting,
                      lightbox, opening, activePost, popup>>
  ELSE /\ lightbox' = DestroyAndHide(lightbox)
       /\ UNCHANGED <<impl, authManager, coreVars, sideVars, authToken, commentVars, linkVars, toggleVars, feedVars, subscribed, players, intersecting,
                      opening, closing, isDrawerOpen, activePost, popup>>

\* closeLightbox after the settle delay
closeLightboxSettles ==
  /\ closing > 0
  /\ closing' = closing - 1
  /\ lightbox' = DestroyAndHide(lightbox)
  /\ UNCHANGED <<impl, authManager, coreVars, sideVars, authToken, commentVars, linkVars, toggleVars, feedVars, subscribed, players, intersecting,
                 opening, isDrawerOpen, activePost, popup>>

\* closeDrawer()
closeDrawer ==
  /\ isDrawerOpen
  /\ isDrawerOpen' = FALSE
  /\ UNCHANGED <<impl, authManager, coreVars, sideVars, authToken, commentVars, linkVars, toggleVars, feedVars, subscribed, players, intersecting,
                 lightbox, opening, closing, activePost, popup>>

\* NotificationManager.openLightboxFromNotification(notification) for a
\* notification without related_comment_id: it builds a post object from
\* notification._content_list (id, created_at, content_type, display_url and
\* the counts; no `paid` field) and calls the store's openLightbox with it, so
\* `post.paid && !appRef.user.subscribed` is false whatever the post is
openLightboxFromNotification ==
  \E id \in PostIds :
    /\ Len(opening) < MaxPendingOpens
    /\ players' = pauseAllPlayers(players, NoPost)
    /\ lightbox' = [pauseLightboxPlayer(lightbox, FALSE) EXCEPT
                      !.type = content_type(id), !.url = id,
                      !.post = id, !.show = TRUE]
    /\ activePost' = id
    /\ isDrawerOpen' = TRUE
    /\ opening' = Append(opening, id)
    /\ text' = InputAfterOpen(text)
    /\ UNCHANGED <<impl, authManager, coreVars, profiles, timers, authToken, commentVars, linkVars, toggleVars, feedVars,
                   subscribed, intersecting, closing, popup>>

\* this.players.forEach(p => p.destroy()); this.players.clear()
destroyPlayers(pl) == [id \in DOMAIN pl |-> "none"]

\* the cached userData and creatorData after logout(): AuthManager.logout
\* clears them with the token (clearAuthData), the components' own branch
\* removes the 'authToken' entry only
ProfilesAfterLogout(pr) == IF authManager THEN FALSE ELSE pr

\* logout(): feed-component.js disconnects the observers and destroys the
\* players of its registries; complete.js calls feedState.cleanup(), which
\* empties the shared players map and closes feedState.lightbox, a field of
\* the FeedState instance and not the store's lightbox.  Then the token is
\* removed and the page is sent to /auth/login.
logout ==
  /\ authToken
  /\ players' = destroyPlayers(players)
  /\ authToken' = FALSE
  /\ profiles' = ProfilesAfterLogout(profiles)
  /\ UNCHANGED <<impl, authManager, coreVars, text, timers, commentVars, linkVars, toggleVars, feedVars, subscribed,
                 intersecting, lightbox, opening, closing, isDrawerOpen,
                 activePost, popup>>

\* the player wiring exists in feed-component.js (with player.js) and in
\* complete.js (with utils/video.js); index.js leaves initLightboxPlayer and
\* openComments as placeholders
InitPlayer ==
  /\ impl \in {"component", "complete"}
  /\ \E sub \in BOOLEAN : PlayersIdle(sub)
  /\ FeedIdle(0)
  /\ TogglesIdle([is_liked |-> FALSE, likes_count |-> 0, is_bookmarked |-> FALSE],
                 [is_liked |-> FALSE, likes_count |-> 0])
  /\ CommentsIdle(0, 0)
  /\ NoLink

NextPlayer ==
  \/ initPlayer
  \/ visibilityChanges
  \/ openLightbox
  \/ openLightboxResumes
  \/ lightboxPlay
  \/ lightboxPause
  \/ closeLightbox
  \/ closeLightboxSettles
  \/ closeDrawer
  \/ openLightboxFromNotification

SpecPlayer == InitPlayer /\ [][NextPlayer]_vars

\* the session up to and after a logout: players mount and autoplay, the
\* lightbox is opened, and logout() runs
NextLogout ==
  \/ initPlayer
  \/ visibilityChanges
  \/ openLightbox
  \/ openLightboxResumes
  \/ logout

\* the feed page with or without window.authManager
InitLogout ==
  /\ impl \in {"component", "complete"}
  /\ \E sub \in BOOLEAN : PlayersIdle(sub)
  /\ FeedIdle(0)
  /\ TogglesIdle([is_liked |-> FALSE, likes_count |-> 0, is_bookmarked |-> FALSE],
                 [is_liked |-> FALSE, likes_count |-> 0])
  /\ CommentsIdle(0, 0)
  /\ NoQuery
  /\ \E mgr \in BOOLEAN : SignedIn(mgr)

SpecLogout == InitLogout /\ [][NextLogout]_vars

\* ==== Comments of a post ==================================================

\* e?.response?.status of a rejected request: 500 stands for every other
\* status, undefined for a failure without a response (network, timeout)
Errors == {401, 403, 429, 500, undefined}

\* res.structured_comments mapped to the post's comment records
LoadedComments(n) == [k \in 1..n |-> k]

\* res.user_list turned into the author lookup: comment k was written by
\* user k % 2
LoadedUsers(n) == {k % 2 : k \in 1..n}

\* the post whose comments the viewer works with
CommentedPost == 0

\* comments_count is not counted beyond 999
CountCap == 999

PendingCommentReqs ==
  {i \in DOMAIN commentReqs :
     commentReqs[i].kind = "load" /\ commentReqs[i].status = "pending"}

PendingPosts ==
  {i \in DOMAIN commentReqs :
     commentReqs[i].kind = "post" /\ commentReqs[i].status = "pending"}

PostInvocations == {i \in DOMAIN commentReqs : commentReqs[i].kind = "post"}

LoadInvocations == {i \in DOMAIN commentReqs : commentReqs[i].kind = "load"}

\* a comment load that was sent to the server; thenReset tells that the input
\* store is reset once the comments have arrived, error holds the status of
\* the failure the request ended with
LoadRequest ==
  [kind |-> "load", status |-> "pending", resets |-> resets,
   count |-> comments_count, thenReset |-> FALSE, error |-> 0]

\* what the viewer leaves in the input: nothing, white space, or a comment
\* with white space around it
Texts == {<<>>, <<" ", " ">>, <<" ", "a", " ">>}

RECURSIVE TrimStart(_)
TrimStart(s) == IF s # <<>> /\ Head(s) = " " THEN TrimStart(Tail(s)) ELSE s

RECURSIVE TrimEnd(_)
TrimEnd(s) ==
  IF s # <<>> /\ s[Len(s)] = " " THEN TrimEnd(SubSeq(s, 1, Len(s) - 1)) ELSE s

\* a text taken as it was typed
Untrimmed(s) == s

\* String.prototype.trim
Trim(s) == TrimEnd(TrimStart(s))

\* `!store.text.trim()`, `!text || !text.trim()`
IsBlank(s) == Trim(s) = <<>>

\* a comment load that always goes to the server
NeverSkipsLoad == FALSE

\* `if (post.commentsLoaded) return;`
SkipsLoad == commentsLoaded

\* `Wait ${countdown}s`
WaitText(countdown) == "Wait " \o ToString(countdown) \o "s"

\* triggerError('rate_limit'), as the popup is first shown
RateLimitPopup ==
  [show |-> TRUE, header |-> "Rate Limited", btnText |-> WaitText(CountdownStart),
   isLocked |-> TRUE, btnAction |-> "none"]

\* whether the error handler ends in the rate-limit branch of triggerError
ShowsRateLimit(status) ==
  status \notin {401, 403} /\ (status = 429 \/ impl = "component")

\* _handleApiError / handleApiError: 401 logs out, 403 asks for a subscription,
\* 429 shows the rate-limit modal; any other failure shows the rate-limit
\* modal in feed-component.js and is only logged in complete.js
PopupAfterError(pp, status) ==
  IF status = 401 THEN pp
  ELSE IF status = 403 THEN SubscriptionPopup
  ELSE IF ShowsRateLimit(status) THEN RateLimitPopup
  ELSE pp

\* setInterval(..., 1000) of the rate-limit branch, with its own countdown
TimersAfterError(tm, status) ==
  IF ShowsRateLimit(status) THEN Append(tm, CountdownStart) ELSE tm

PlayersAfterError(pl, status) == IF status = 401 THEN destroyPlayers(pl) ELSE pl

TokenAfterError(tok, status) == IF status = 401 THEN FALSE ELSE tok

ProfilesAfterError(pr, status) == IF status = 401 THEN ProfilesAfterLogout(pr) ELSE pr

FailedCommentReqs == {i \in DOMAIN commentReqs : commentReqs[i].status = "failed"}

\* ---- loading and posting comments ---------------------------------------

\* openComments(post, force) of the components; CommentsManager.loadComments
\* (post) when called on its own, which touches neither the active post nor
\* the drawer
openComments ==
  \E force \in BOOLEAN :
    /\ Cardinality(LoadInvocations) < MaxCommentLoads
    /\ Len(commentReqs) < MaxCommentReqs
    /\ activePost' = IF impl = "index" THEN activePost ELSE CommentedPost
    /\ isDrawerOpen' = IF impl = "index" THEN isDrawerOpen ELSE (isDrawerOpen \/ force)
    /\ commentReqs' =
         Append(commentReqs,
                IF SkipsLoad THEN [LoadRequest EXCEPT !.status = "noop"] ELSE LoadRequest)
    /\ text' = InputAfterOpen(text)
    /\ UNCHANGED <<impl, authManager, coreVars, profiles, timers, authToken, toggleVars, feedVars, linkVars, subscribed,
                   players, intersecting, lightbox, opening, closing, popup,
                   commentsLoaded, comments, commentUsers, comments_count,
                   serverComments, resets>>

\* the comments arrive: post.comments, post.commentUsers, commentsLoaded = true
commentsArrive ==
  \E i \in PendingCommentReqs :
    /\ commentReqs' = [commentReqs EXCEPT ![i].status = "ok"]
    /\ comments' = LoadedComments(serverComments)
    /\ commentUsers' = LoadedUsers(serverComments)
    /\ commentsLoaded' = TRUE
    /\ text' = IF commentReqs[i].thenReset THEN <<>> ELSE text
    /\ UNCHANGED <<impl, authManager, coreVars, profiles, timers, authToken, toggleVars,
                   feedVars, linkVars, playerVars, comments_count, serverComments,
                   resets>>

\* what a failed request of the comment functions does: the components hand it
\* to their error handler, CommentsManager rethrows it to its caller
CommentErrorHandled(status) ==
  IF impl = "index"
  THEN UNCHANGED <<popup, players, authToken, profiles, timers>>
  ELSE /\ popup' = PopupAfterError(popup, status)
       /\ timers' = TimersAfterError(timers, status)
       /\ players' = PlayersAfterError(players, status)
       /\ authToken' = TokenAfterError(authToken, status)
       /\ profiles' = ProfilesAfterError(profiles, status)

\* a failure that marks the comments as loaded
FlagSetByFailure(flag) == TRUE

\* the catch blocks of the comment load leave post.commentsLoaded alone
FlagAfterFailure(flag) == flag

\* the comment request fails
commentsFail ==
  \E i \in PendingCommentReqs, status \in Errors :
    /\ commentReqs' = [commentReqs EXCEPT ![i].status = "failed", ![i].error = status]
    /\ Cardinality(FailedCommentReqs) < MaxFailures
    /\ CommentErrorHandled(status)
    /\ commentsLoaded' = FlagAfterFailure(commentsLoaded)
    /\ UNCHANGED <<impl, authManager, coreVars, text, toggleVars, feedVars, linkVars, subscribed, intersecting,
                   lightbox, opening, closing, isDrawerOpen, activePost,
                   comments, commentUsers, comments_count,
                   serverComments, resets>>

\* the input store's text is edited
typeText ==
  \E t \in Texts :
    /\ text' = t
    /\ UNCHANGED <<impl, authManager, coreVars, profiles, timers, authToken, toggleVars,
                   feedVars, linkVars, playerVars, commentVars>>

\* postComment(): sends the text of the input store for the active post; a
\* blank text ends the call (CommentsManager.postComment throws before the
\* request)
postComment ==
  /\ impl = "index" \/ activePost # NoPost
  /\ Cardinality(PostInvocations) < MaxComments
  /\ Len(commentReqs) < MaxCommentReqs
  /\ commentReqs' =
       Append(commentReqs,
              [LoadRequest EXCEPT !.kind = "post",
                                  !.status = IF IsBlank(text) THEN "noop" ELSE "pending"])
  /\ UNCHANGED <<impl, authManager, coreVars, sideVars, authToken, toggleVars, feedVars, linkVars, playerVars,
                 commentsLoaded, comments, commentUsers, comments_count,
                 serverComments, resets>>

\* a count raised by every comment
CountsEvery(count) == count + 1

\* if (post.comments_count < 999) post.comments_count++
CountComment(count) == IF count < CountCap THEN count + 1 ELSE count

\* a flag left as the post found it
FlagKept == commentsLoaded

\* `this.activePost.commentsLoaded = false`, `post.commentsLoaded = false`
FlagAfterPost == FALSE

\* the comment was stored: the count is raised, commentsLoaded is set back to
\* false and the comments are loaded again, under the test of the flag
postCommentSucceeds ==
  \E i \in PendingPosts :
    /\ serverComments' = serverComments + 1
    /\ comments_count' = CountComment(comments_count)
    /\ commentsLoaded' = FlagAfterPost
    /\ resets' = resets + 1
    /\ commentReqs' = Append([commentReqs EXCEPT ![i].status = "ok"],
                             [LoadRequest EXCEPT !.resets = resets + 1,
                                                 !.status = IF commentsLoaded' THEN "noop"
                                                            ELSE "pending",
                                                 !.count = comments_count',
                                                 !.thenReset = (impl = "complete")])
    /\ text' = IF impl = "component" THEN <<>> ELSE text
    /\ UNCHANGED <<impl, authManager, coreVars, profiles, timers, authToken, toggleVars, feedVars, linkVars, playerVars,
                   comments, commentUsers>>

\* the comment was rejected
postCommentFails ==
  \E i \in PendingPosts, status \in Errors :
    /\ commentReqs' = [commentReqs EXCEPT ![i].status = "failed", ![i].error = status]
    /\ Cardinality(FailedCommentReqs) < MaxFailures
    /\ CommentErrorHandled(status)
    /\ UNCHANGED <<impl, authManager, coreVars, text, toggleVars, feedVars, linkVars, subscribed, intersecting,
                   lightbox, opening, closing, isDrawerOpen, activePost,
                   commentsLoaded, comments, commentUsers, comments_count,
                   serverComments, resets>>

\* ---- the modal of the error handler ---------------------------------------

RemoveAt(seq, k) == SubSeq(seq, 1, k - 1) \o SubSeq(seq, k + 1, Len(seq))

\* the unlocked rate-limit modal offers 'Return Home', which calls logout();
\* in index.js it offers 'OK', which hides the modal
PopupAfterCountdown(pp) ==
  [pp EXCEPT !.isLocked = FALSE,
             !.btnText = IF impl = "index" THEN "OK" ELSE "Return Home",
             !.btnAction = IF impl = "index" THEN "hide" ELSE "logout"]

\* one run of the interval callback of triggerError: countdown--, then either
\* the new button text or the end of the interval and the unlocked modal; the
\* callback writes to whatever this.popup holds when it runs
countdownTick ==
  \E k \in DOMAIN timers :
    /\ IF timers[k] - 1 > 0
       THEN /\ timers' = [timers EXCEPT ![k] = timers[k] - 1]
            /\ popup' = [popup EXCEPT !.btnText = WaitText(timers[k] - 1)]
       ELSE /\ timers' = RemoveAt(timers, k)
            /\ popup' = PopupAfterCountdown(popup)
    /\ UNCHANGED <<impl, authManager, coreVars, text, profiles, authToken, toggleVars,
                   feedVars, linkVars, commentVars, subscribed, players, intersecting,
                   lightbox, opening, closing, isDrawerOpen, activePost>>

\* the modal's button is pressed and runs popup.btnAction: logout(), hiding
\* the modal, or leaving for the settings page
clickPopupButton ==
  /\ popup.show
  /\ popup.btnAction # "none"
  /\ IF popup.btnAction = "logout"
     THEN /\ players' = destroyPlayers(players)
          /\ authToken' = FALSE
          /\ profiles' = ProfilesAfterLogout(profiles)
          /\ popup' = popup
     ELSE /\ popup' = [popup EXCEPT !.show = (popup.btnAction # "hide")]
          /\ UNCHANGED <<players, authToken, profiles>>
  /\ UNCHANGED <<impl, authManager, coreVars, text, timers, toggleVars, feedVars,
                 linkVars, commentVars, subscribed, intersecting, lightbox, opening,
                 closing, isDrawerOpen, activePost>>

\* triggerError(type), as its callers invoke it: a click on paid media or a
\* 403 asks for a subscription, a 429 starts the rate-limit modal and its
\* interval
triggerError ==
  \E type \in {"subscription", "rate_limit"} :
    /\ type = "rate_limit" => Len(timers) < MaxTimers
    /\ popup' = IF type = "subscription" THEN SubscriptionPopup ELSE RateLimitPopup
    /\ timers' = IF type = "subscription" THEN timers
                 ELSE Append(timers, CountdownStart)
    /\ UNCHANGED <<impl, authManager, coreVars, text, profiles, authToken, toggleVars,
                   feedVars, linkVars, commentVars, subscribed, players, intersecting,
                   lightbox, opening, closing, isDrawerOpen, activePost>>

\* a post with one comment on the server, its counter at or just below the cap
InitCommentsSpec ==
  /\ impl \in Impls
  /\ PlayersIdle(FALSE)
  /\ TogglesIdle([is_liked |-> FALSE, likes_count |-> 0, is_bookmarked |-> FALSE],
                 [is_liked |-> FALSE, likes_count |-> 0])
  /\ FeedIdle(0)
  /\ \E count \in {CountCap - 1, CountCap} : CommentsIdle(1, count)
  /\ NoLink

NextComments ==
  \/ typeText
  \/ openComments
  \/ commentsArrive
  \/ commentsFail
  \/ postComment
  \/ postCommentSucceeds
  \/ postCommentFails

SpecComments == InitCommentsSpec /\ [][NextComments]_vars

\* a comment load that fails, the countdown of the modal it brings up, and the
\* modal's button
NextRateLimit ==
  \/ openComments
  \/ commentsArrive
  \/ commentsFail
  \/ countdownTick
  \/ clickPopupButton
  \/ triggerError

SpecRateLimit == InitCommentsSpec /\ [][NextRateLimit]_vars

\* ---- claims about the comments -------------------------------------------

LoadInvokedNow ==
  /\ Len(commentReqs') = Len(commentReqs) + 1
  /\ commentReqs'[Len(commentReqs')].kind = "load"

\* C19: a comment load invoked on a post whose commentsLoaded flag is true,
\* with no reset of the flag, issues no request and leaves the post's comments
\* and author lookup as they are.
C19_LoadedCommentsNotReloaded ==
  [][(commentsLoaded /\ resets' = resets /\ LoadInvokedNow) =>
        /\ commentReqs'[Len(commentReqs')].status = "noop"
        /\ comments' = comments
        /\ commentUsers' = commentUsers]_vars

\* comments were loaded, then the load was invoked again and did nothing,
\* although the server holds a comment
C19_Witness ==
  /\ serverComments > 0
  /\ \E i, j \in LoadInvocations :
       /\ i < j
       /\ commentReqs[i].status = "ok"
       /\ commentReqs[j].status = "noop"
       /\ commentReqs[i].resets = commentReqs[j].resets

\* C20: two comment loads of a post with no reset of the flag between them
\* send at most one request, also when the second starts while the first is in
\* flight (a request that failed may be repeated).
C20_OneRequestPerLoadedState ==
  \A i, j \in LoadInvocations :
     (i < j /\ commentReqs[i].resets = commentReqs[j].resets) =>
        ~(/\ commentReqs[i].status \in {"pending", "ok"}
          /\ commentReqs[j].status # "noop")

\* a text of nothing but white space
OnlyBlanks(s) == \A k \in DOMAIN s : s[k] = " "

PostInvokedNow ==
  /\ Len(commentReqs') = Len(commentReqs) + 1
  /\ commentReqs'[Len(commentReqs')].kind = "post"

\* C21: posting a comment whose text is blank after trimming sends no request
\* and changes nothing: the comments, the author lookup, the flag, the count,
\* the server's comments and the input stay as they are.
C21_BlankCommentNotSent ==
  [][(PostInvokedNow /\ OnlyBlanks(text)) =>
        /\ commentReqs'[Len(commentReqs')].status = "noop"
        /\ UNCHANGED <<comments, commentUsers, commentsLoaded, comments_count,
                       serverComments, resets, text, popup>>]_vars

\* the input holds white space only, and the post just invoked sent nothing
C21_Witness ==
  /\ text # <<>>
  /\ OnlyBlanks(text)
  /\ commentReqs # <<>>
  /\ commentReqs[Len(commentReqs)].kind = "post"
  /\ commentReqs[Len(commentReqs)].status = "noop"

\* C22: comments_count is never raised past 999: a comment posted on a post
\* whose count is 999 leaves it at 999, and a count that started at or below
\* 999 stays there whatever posts succeed or fail.
C22_CountNeverPastCap == comments_count <= CountCap

\* a comment was posted and stored while the count stood at the cap
C22_Witness ==
  /\ comments_count = CountCap
  /\ \E i \in PostInvocations :
       commentReqs[i].status = "ok" /\ commentReqs[i].count = CountCap

\* the post request i is answered with success in this step
PostStoredNow(i) ==
  /\ i \in PendingPosts
  /\ commentReqs'[i].status = "ok"

\* the load request i is answered with the comments in this step
LoadAnsweredNow(i) ==
  /\ i \in PendingCommentReqs
  /\ commentReqs'[i].status = "ok"

ReloadForced ==
  \A p \in DOMAIN commentReqs :
     PostStoredNow(p) =>
       /\ ~commentsLoaded'
       /\ Len(commentReqs') = Len(commentReqs) + 1
       /\ commentReqs'[Len(commentReqs')].kind = "load"
       /\ commentReqs'[Len(commentReqs')].status = "pending"
       /\ comments' = comments
       /\ commentUsers' = commentUsers

OnlyReplaced ==
  (comments' # comments) =>
     /\ \E i \in DOMAIN commentReqs : LoadAnsweredNow(i)
     /\ comments' = LoadedComments(serverComments)

CommentLoadFailsNow(i) ==
  /\ i \in PendingCommentReqs
  /\ commentReqs'[i].status = "failed"

FailsNowWith(i, status) ==
  /\ commentReqs[i].status = "pending"
  /\ commentReqs'[i].status = "failed"
  /\ commentReqs'[i].error = status

SessionKept == authToken' = authToken /\ players' = players

\* C25: the components' error handler goes by the HTTP status of the error
\* alone: 401 ends the session, 403 shows the subscription modal, 429 shows
\* the rate-limit modal, and an error with any other status or with none
\* does none of the three.
C25_ClassifiedByStatus ==
  [][impl # "index" =>
       \A i \in DOMAIN commentReqs, status \in Errors :
          FailsNowWith(i, status) =>
             CASE status = 401 -> ~authToken' /\ popup' = popup
               [] status = 403 -> popup' = SubscriptionPopup /\ SessionKept
               [] status = 429 -> popup' = RateLimitPopup /\ SessionKept
               [] OTHER -> popup' = popup /\ SessionKept]_vars

RateLimitShown == popup.show /\ popup.header = "Rate Limited"

\* C26: a rate-limit error is not fatal: the modal it shows is locked until
\* its countdown has run out, and neither showing the modal nor pressing its
\* button once it is unlocked ends the session or destroys players (every
\* step taken with the modal on screen, other than a further failing
\* request, keeps the token and the players).
C26_RateLimitNonFatal ==
  [][/\ (\E i \in DOMAIN commentReqs : FailsNowWith(i, 429)) =>
          (impl # "index" => popup'.isLocked) /\ SessionKept
     /\ (RateLimitShown /\ commentReqs' = commentReqs) => SessionKept]_vars

\* ==== Deep link (?content_id=) ============================================

\* what the server returns for page 1, per_page 50: every post it holds
ServerFeed == [i \in 1..(NumVideos + 1) |-> i - 1]

\* the id of a post the server does not hold (deleted content)
DeletedPost == NumVideos + 1

InFeed(f, id) == \E i \in DOMAIN f : f[i] = id

\* a modal that never appears
NoPopupShown == HiddenPopup

\* the "Content Not Found" modal
ContentNotFoundPopup ==
  [show |-> TRUE, header |-> "Content Not Found", btnText |-> "OK", isLocked |-> FALSE,
   btnAction |-> "hide"]

\* the feed after the fetched post was added: feed.unshift(post) in
\* feed-component.js and InteractionsManager, feedState.addPosts([found]) in
\* complete.js
FeedAfterFetch(f, id) == IF impl = "complete" THEN addPosts(f, <<id>>) ELSE <<id>> \o f

\* the post the resolution goes on with: the fetched post, or `this.feed[0]`
\* in complete.js
ResolvedPost(f, id) == IF impl = "complete" THEN Head(FeedAfterFetch(f, id)) ELSE id

\* the open step of the resolution, up to the await on the comment request:
\* Alpine.store('app').openLightbox(post, ...) in the components,
\* openLightboxForDeepLink(post, commentId) in InteractionsManager (no
\* subscription test, no pauseAllPlayers, no drawer, and the active post is
\* written to the state object).  A rejected openLightbox returns at once and
\* the component goes on to clean the URL.
DeepLinkOpens(p) ==
  IF impl # "index" /\ paid(p) /\ ~subscribed
  THEN /\ popup' = SubscriptionPopup
       /\ hasQuery' = FALSE
       /\ link' = [link EXCEPT !.pc = "rejected", !.post = p]
       /\ UNCHANGED <<players, lightbox, activePost, isDrawerOpen, commentReqs, text>>
  ELSE /\ players' = IF impl = "index" THEN players ELSE pauseAllPlayers(players, NoPost)
       /\ lightbox' = [(IF impl = "index" THEN lightbox
                        ELSE pauseLightboxPlayer(lightbox, FALSE)) EXCEPT
                         !.type = content_type(p), !.url = p, !.post = p, !.show = TRUE]
       /\ activePost' = p
       /\ isDrawerOpen' = (isDrawerOpen \/ impl # "index")
       /\ commentReqs' = Append(commentReqs, LoadRequest)
       /\ text' = InputAfterOpen(text)
       /\ link' = [link EXCEPT !.pc = "opening", !.post = p]
       /\ UNCHANGED <<popup, hasQuery>>

\* handleDeepLink(): looks the post up in the loaded feed; opens it, or asks
\* the server for page 1
handleDeepLink ==
  /\ link.pc = "start"
  /\ IF InFeed(feed, link.contentId)
     THEN DeepLinkOpens(link.contentId)
     ELSE /\ link' = [link EXCEPT !.pc = "fetching"]
          /\ UNCHANGED <<players, lightbox, activePost, isDrawerOpen, commentReqs,
                         popup, hasQuery, text>>
  /\ UNCHANGED <<impl, authManager, coreVars, profiles, timers, authToken, toggleVars, lastPage, feed, page, hasMore,
                 isLoadingMore, loads, subscribed, intersecting, opening, closing,
                 commentsLoaded, comments, commentUsers, comments_count,
                 serverComments, resets>>

\* the page-1 response arrives
deepLinkFetched ==
  /\ link.pc = "fetching"
  /\ IF InFeed(ServerFeed, link.contentId)
     THEN /\ feed' = FeedAfterFetch(feed, link.contentId)
          /\ DeepLinkOpens(ResolvedPost(feed, link.contentId))
     ELSE /\ popup' = ContentNotFoundPopup
          /\ link' = [link EXCEPT !.pc = "notfound"]
          /\ UNCHANGED <<feed, players, lightbox, activePost, isDrawerOpen,
                         commentReqs, hasQuery, text>>
  /\ UNCHANGED <<impl, authManager, coreVars, profiles, timers, authToken, toggleVars, lastPage, page, hasMore,
                 isLoadingMore, loads, subscribed, intersecting, opening, closing,
                 commentsLoaded, comments, commentUsers, comments_count,
                 serverComments, resets>>

\* the page-1 request fails: `catch { return; }` in the components; fetchPost
\* of InteractionsManager returns null and the caller shows the modal
deepLinkFetchFails ==
  /\ link.pc = "fetching"
  /\ IF impl = "index"
     THEN /\ popup' = ContentNotFoundPopup
          /\ link' = [link EXCEPT !.pc = "notfound", !.error = "fetch"]
     ELSE /\ link' = [link EXCEPT !.pc = "silent", !.error = "fetch"]
          /\ UNCHANGED popup
  /\ UNCHANGED <<impl, authManager, coreVars, sideVars, authToken, toggleVars, feedVars, subscribed, players,
                 intersecting, lightbox, opening, closing, isDrawerOpen,
                 activePost, commentVars, hasQuery>>

\* initLightboxPlayer() at the end of the store's openLightbox, for a video
MountLightboxPlayer(pl, lb, started) ==
  IF impl # "index" /\ content_type(lb.post) = "video"
  THEN <<IF started THEN pauseAllPlayers(pl, NoPost) ELSE pl,
         [lb EXCEPT !.player = IF started THEN "playing" ELSE "paused"]>>
  ELSE <<pl, lb>>

\* the comments of the opened post arrive; the open call finishes and the
\* resolution replaces the URL
deepLinkCommentsLoaded ==
  \E i \in PendingCommentReqs, started \in BOOLEAN :
    /\ link.pc = "opening"
    /\ commentReqs' = [commentReqs EXCEPT ![i].status = "ok"]
    /\ comments' = LoadedComments(serverComments)
    /\ commentUsers' = LoadedUsers(serverComments)
    /\ commentsLoaded' = TRUE
    /\ players' = MountLightboxPlayer(players, lightbox, started)[1]
    /\ lightbox' = MountLightboxPlayer(players, lightbox, started)[2]
    /\ hasQuery' = FALSE
    /\ link' = [link EXCEPT !.pc = "done"]
    /\ UNCHANGED <<impl, authManager, coreVars, sideVars, authToken, toggleVars, feedVars, subscribed, intersecting,
                   opening, closing, isDrawerOpen, activePost, popup,
                   comments_count, serverComments, resets>>

\* the comment request fails.  In the components openComments catches the
\* error and hands it to the error handler, and the open call and the
\* resolution go on; in InteractionsManager loadComments rethrows and
\* handleDeepLink's catch shows the not-found modal.
deepLinkCommentsFail ==
  \E i \in PendingCommentReqs, status \in Errors, started \in BOOLEAN :
    /\ link.pc = "opening"
    /\ commentReqs' = [commentReqs EXCEPT ![i].status = "failed", ![i].error = status]
    /\ IF impl = "index"
       THEN /\ popup' = ContentNotFoundPopup
            /\ link' = [link EXCEPT !.pc = "notfound", !.error = "comments"]
            /\ UNCHANGED <<players, lightbox, hasQuery, authToken, profiles, timers>>
       ELSE /\ popup' = PopupAfterError(popup, status)
            /\ timers' = TimersAfterError(timers, status)
            /\ authToken' = TokenAfterError(authToken, status)
            /\ profiles' = ProfilesAfterError(profiles, status)
            /\ players' =
                 MountLightboxPlayer(PlayersAfterError(players, status), lightbox, started)[1]
            /\ lightbox' =
                 MountLightboxPlayer(PlayersAfterError(players, status), lightbox, started)[2]
            /\ hasQuery' = FALSE
            /\ link' = [link EXCEPT !.pc = "done", !.error = "comments"]
    /\ UNCHANGED <<impl, authManager, coreVars, text, toggleVars, feedVars, subscribed, intersecting, opening,
                   closing, isDrawerOpen, activePost, commentsLoaded, comments,
                   commentUsers, comments_count, serverComments, resets>>

\* the page after init()'s loadFeed: the first k posts of the server are in the
\* feed (none if the load failed), no player is mounted yet, and the URL
\* carries ?content_id=
InitDeepLink ==
  /\ impl \in Impls
  /\ \E sub \in BOOLEAN : PlayersIdle(sub)
  /\ TogglesIdle([is_liked |-> FALSE, likes_count |-> 0, is_bookmarked |-> FALSE],
                 [is_liked |-> FALSE, likes_count |-> 0])
  /\ CommentsIdle(1, 1)
  /\ SignedIn(TRUE)
  /\ hasQuery = TRUE
  /\ lastPage = 1
  /\ hasMore = TRUE
  /\ isLoadingMore = FALSE
  /\ loads = <<>>
  /\ \E k \in 0..Len(ServerFeed), id \in PostIds \cup {DeletedPost} :
       /\ feed = SubSeq(ServerFeed, 1, k)
       /\ page = IF k > 0 THEN 2 ELSE 1
       /\ link = [pc |-> "start", contentId |-> id, post |-> NoPost,
                  feed0 |-> SubSeq(ServerFeed, 1, k), error |-> "none"]

\* the feed cards are rendered, and their players mounted, only after init()
\* has called handleDeepLink
cardPlayerMounts == link.pc # "start" /\ initPlayer

cardVisibilityChanges == link.pc # "start" /\ visibilityChanges

NextDeepLink ==
  \/ handleDeepLink
  \/ deepLinkFetched
  \/ deepLinkFetchFails
  \/ deepLinkCommentsLoaded
  \/ deepLinkCommentsFail
  \/ cardPlayerMounts
  \/ cardVisibilityChanges
  \/ countdownTick

SpecDeepLink == InitDeepLink /\ [][NextDeepLink]_vars

\* ---- claims about the players --------------------------------------------

Playing == {id \in VideoPosts : players[id] = "playing"}

\* openLightbox resumes for a video in this step and initLightboxPlayer
\* assigns a new player to the lightbox descriptor
LightboxPlayerMountsNow ==
  \E i \in DOMAIN opening :
     /\ opening' = SubSeq(opening, 1, i - 1) \o SubSeq(opening, i + 1, Len(opening))
     /\ content_type(opening[i]) = "video"

\* C28: every player and streaming instance that was created is referenced
\* by the registries or by the lightbox descriptor until it is destroyed;
\* none is overwritten or dropped while it is live.
C28_NoOrphanedResource ==
  [][LightboxPlayerMountsNow => lightbox.player = "none"]_vars

C10_AutoplayYieldsToLightbox ==
  [][\A id \in VideoPosts :
       (players[id] # "playing" /\ players'[id] = "playing") =>
          (intersecting'[id] /\ ~lightbox.show)]_vars

\* C11: the lightbox never becomes visible for a paid post while the session
\* is unsubscribed, on any path that opens it.
C11_PaidLightboxNeedsSubscription ==
  (lightbox.show /\ lightbox.post # NoPost /\ paid(lightbox.post)) => subscribed

\* C13: a step that completes closeLightbox (the lightbox goes from visible to
\* hidden) leaves the whole descriptor at its closed defaults.
C13_CloseResetsDescriptor ==
  [][(lightbox.show /\ ~lightbox'.show) => lightbox' = ClosedLightbox]_vars

\* C29: closeLightbox invoked with the drawer open closes the drawer and
\* leaves the lightbox as it is, still visible; the player is destroyed and
\* the lightbox hidden only by the step that follows the settle delay (a
\* step that hides the lightbox either ends such a delay or belongs to a
\* close invoked with the drawer closed).
C29_DrawerClosedBeforeDestroy ==
  [][/\ (closing' > closing) => (isDrawerOpen /\ ~isDrawerOpen' /\ lightbox' = lightbox)
     /\ (lightbox.show /\ ~lightbox'.show) => (closing' < closing \/ ~isDrawerOpen)]_vars

\* a close is waiting out the settle delay: the drawer is closed, the lightbox
\* is still shown and its player still alive
C29_Witness ==
  /\ closing > 0
  /\ ~isDrawerOpen
  /\ lightbox.show
  /\ lightbox.player # "none"

\* C30: once logout has removed the session, the auth token, the cached user
\* profile and the cached creator profile are all gone from storage.
C30_LogoutClearsStorage == ~authToken => ~profiles

\* C14: after the logout step every feed player is destroyed, the player
\* registry is empty and the lightbox is closed with its player destroyed.
C14_LogoutTearsDown ==
  [][(authToken /\ ~authToken') =>
        /\ \A id \in VideoPosts : players'[id] = "none"
        /\ ~lightbox'.show
        /\ lightbox'.player = "none"]_vars

\* ---- claims about the deep link ------------------------------------------

\* C12: whenever the lightbox is opened (made visible, or switched to another
\* post), all feed players and the lightbox player have been paused: in the
\* state in which it is visible for the new post nothing is playing.
C12_PausedBeforeLightboxOpens ==
  [][(lightbox'.show /\ (~lightbox.show \/ lightbox'.post # lightbox.post)) =>
        /\ \A id \in VideoPosts : players'[id] # "playing"
        /\ lightbox'.player # "playing"]_vars

\* the resolution ran to its end with every request answered, for a post that
\* was not in the loaded feed, is on the server, and may be viewed
FetchedAndViewable ==
  /\ link.pc = "done"
  /\ link.error = "none"
  /\ ~InFeed(link.feed0, link.contentId)
  /\ InFeed(ServerFeed, link.contentId)
  /\ (paid(link.contentId) => subscribed)

\* C15: after the resolution of a deep link to a post that had to be fetched,
\* the post is at the front of the feed, the lightbox is open with that post as
\* its post and as the active post, its comments are loaded and the URL has
\* lost its query parameters.
C15_DeepLinkOpensFetchedPost ==
  FetchedAndViewable =>
    /\ Head(feed) = link.contentId
    /\ lightbox.show
    /\ lightbox.post = link.contentId
    /\ activePost = link.contentId
    /\ commentsLoaded
    /\ ~hasQuery

Ended == link.pc \in {"done", "rejected", "notfound", "silent"}

NotFoundShown == popup.show /\ popup.header = "Content Not Found"

\* C16: a resolution in which a request failed ends with the content-not-found
\* modal on screen.
C16_FetchErrorShowsNotFound ==
  (Ended /\ link.error # "none") => NotFoundShown

\* C17: the lightbox is never visible without a post, and a resolution that
\* ended with the not-found modal has not left the lightbox open.
C17_NoPartialLoad ==
  /\ lightbox.show => lightbox.post # NoPost
  /\ link.pc = "notfound" => ~lightbox.show

\* the post was neither in the loaded feed nor in the fetched page
FoundNowhere ==
  /\ Ended
  /\ link.error = "none"
  /\ ~InFeed(link.feed0, link.contentId)
  /\ ~InFeed(ServerFeed, link.contentId)

\* C18: when the post is found neither in the feed nor in the additional fetch,
\* the not-found modal is shown and the resolution stops: the feed is as it
\* was, the lightbox is closed, no post is active and no further request (a
\* comment load) was issued.
C18_NotFoundStops ==
  FoundNowhere =>
    /\ NotFoundShown
    /\ link.pc = "notfound"
    /\ feed = link.feed0
    /\ ~lightbox.show
    /\ activePost = NoPost
    /\ commentReqs = <<>>

\* the fetch answered without the post and the resolution has ended
C18_Witness ==
  /\ FoundNowhere
  /\ link.feed0 # <<>>

\* ==== StorageManager (core/storage) =======================================

\* the strings that are written
StoredValues == {"", "v"}

HeldKeys(store) == {k \in StorageKeys : store[k].present}

\* localStorage.setItem(key, value) throws QuotaExceededError when the key is
\* new and the store already holds StorageQuota entries
HitsQuota(store, key) ==
  ~store[key].present /\ Cardinality(HeldKeys(store)) >= StorageQuota

\* a recovery that spares nothing
ClearsEverything(store) == [k \in StorageKeys |-> null]

\* clearNonEssential(): removes every key that is not one of the three
clearNonEssential(store) ==
  [k \in StorageKeys |-> IF k \in EssentialKeys THEN store[k] ELSE null]

\* `this._memoryStorage[key] || null`: an empty string is falsy
OrNull(entry) == IF entry.present /\ entry.val # "" THEN entry ELSE null

\* one more entry of the log
Logged(op, key, value, result, attempts) ==
  Append(storageLog, [op |-> op, key |-> key, value |-> value, result |-> result,
                      attempts |-> attempts, available |-> isAvailable])

\* setItem(key, value)
setItem ==
  \E key \in StorageKeys, value \in StoredValues, otherError \in BOOLEAN :
    /\ Len(storageLog) < MaxStorageOps
    /\ IF ~isAvailable
       THEN /\ memoryStorage' =
                 [created |-> TRUE,
                  items |-> [memoryStorage.items EXCEPT ![key] = Str(value)]]
            /\ storageLog' = Logged("set", key, Str(value), Str("false"), 0)
            /\ UNCHANGED <<localStorage, quotaExceeded>>
       ELSE IF ~HitsQuota(localStorage, key) /\ ~otherError
       THEN /\ localStorage' = [localStorage EXCEPT ![key] = Str(value)]
            /\ quotaExceeded' = FALSE
            /\ storageLog' = Logged("set", key, Str(value), Str("true"), 1)
            /\ UNCHANGED memoryStorage
       ELSE IF HitsQuota(localStorage, key)
       THEN /\ quotaExceeded' = TRUE
            /\ localStorage' =
                 IF HitsQuota(clearNonEssential(localStorage), key)
                 THEN clearNonEssential(localStorage)
                 ELSE [clearNonEssential(localStorage) EXCEPT ![key] = Str(value)]
            /\ storageLog' =
                 Logged("set", key, Str(value),
                        IF HitsQuota(clearNonEssential(localStorage), key)
                        THEN Str("false") ELSE Str("true"), 2)
            /\ UNCHANGED memoryStorage
       ELSE /\ storageLog' = Logged("set", key, Str(value), Str("false"), 1)
            /\ UNCHANGED <<localStorage, quotaExceeded, memoryStorage>>
    /\ UNCHANGED <<impl, authManager, authToken, toggleVars, feedVars, playerVars,
                   commentVars, linkVars, sideVars, pageVars, isAvailable>>

\* getItem(key)
getItem ==
  \E key \in StorageKeys :
    /\ Len(storageLog) < MaxStorageOps
    /\ storageLog' =
         Logged("get", key, null,
                IF ~isAvailable /\ memoryStorage.created
                THEN OrNull(memoryStorage.items[key])
                ELSE localStorage[key], 0)
    /\ UNCHANGED <<impl, authManager, authToken, toggleVars, feedVars, playerVars,
                   commentVars, linkVars, sideVars, pageVars, isAvailable, quotaExceeded,
                   memoryStorage, localStorage>>

\* removeItem(key)
removeItem ==
  \E key \in StorageKeys :
    /\ Len(storageLog) < MaxStorageOps
    /\ IF ~isAvailable /\ memoryStorage.created
       THEN /\ memoryStorage' =
                 [memoryStorage EXCEPT !.items = [@ EXCEPT ![key] = null]]
            /\ UNCHANGED localStorage
       ELSE /\ localStorage' = [localStorage EXCEPT ![key] = null]
            /\ UNCHANGED memoryStorage
    /\ storageLog' = Logged("remove", key, null, null, 0)
    /\ UNCHANGED <<impl, authManager, authToken, toggleVars, feedVars, playerVars,
                   commentVars, linkVars, sideVars, pageVars, isAvailable, quotaExceeded>>

\* new StorageManager(): checkAvailability() writes and removes a test key,
\* which fails when the store is full or closed to the page (private mode)
checkAvailability(store, closed) ==
  ~closed /\ Cardinality(HeldKeys(store)) < StorageQuota

\* the contents localStorage may have kept from earlier visits
StoredBefore ==
  {[k \in StorageKeys |-> IF k \in held THEN Str("v") ELSE null] :
     held \in {{}, EssentialKeys, {"authToken", "theme"}, StorageKeys}}

\* the feed component has done nothing yet
ComponentIdle ==
  /\ TogglesIdle([is_liked |-> FALSE, likes_count |-> 0, is_bookmarked |-> FALSE],
                 [is_liked |-> FALSE, likes_count |-> 0])
  /\ FeedIdle(0)
  /\ PlayersIdle(FALSE)
  /\ CommentsIdle(0, 0)
  /\ NoQuery
  /\ authManager = TRUE /\ authToken = TRUE /\ profiles = TRUE
  /\ text = <<>> /\ timers = <<>>

InitStorage ==
  /\ impl = "index"
  /\ ComponentIdle
  /\ AuthIdle
  /\ DrawerIdle
  /\ \E store \in StoredBefore, closed \in BOOLEAN :
       /\ Cardinality(HeldKeys(store)) <= StorageQuota
       /\ localStorage = store
       /\ isAvailable = checkAvailability(store, closed)
  /\ quotaExceeded = FALSE
  /\ memoryStorage = [created |-> FALSE, items |-> [k \in StorageKeys |-> null]]
  /\ storageLog = <<>>

NextStorage ==
  \/ setItem
  \/ getItem
  \/ removeItem

SpecStorage == InitStorage /\ [][NextStorage]_vars

\* C31: with browser storage unavailable the adapter keeps the values in
\* memory: a setItem(k, v) directly followed by getItem(k) returns v, and a
\* removeItem(k) directly followed by getItem(k) returns null.
C31_MemoryFallbackRoundTrip ==
  \A i \in 1..(Len(storageLog) - 1) :
     (/\ ~storageLog[i].available
      /\ storageLog[i + 1].op = "get"
      /\ storageLog[i + 1].key = storageLog[i].key) =>
        /\ storageLog[i].op = "set" => storageLog[i + 1].result = storageLog[i].value
        /\ storageLog[i].op = "remove" => storageLog[i + 1].result = null

\* setItem ran into the quota in this step: the write was attempted twice
QuotaRecoveryNow ==
  /\ Len(storageLog') = Len(storageLog) + 1
  /\ storageLog'[Len(storageLog')].attempts = 2

WrittenKey == storageLog'[Len(storageLog')].key

\* C32: a write that hits the quota removes every key other than the three
\* essential ones and is tried once more; the recovery removes none of the
\* three, and setItem returns true or false, according to the second attempt.
C32_QuotaRecoveryKeepsEssentials ==
  [][/\ (/\ isAvailable
         /\ Len(storageLog') = Len(storageLog) + 1
         /\ storageLog'[Len(storageLog')].op = "set"
         /\ HitsQuota(localStorage, WrittenKey)) => QuotaRecoveryNow
     /\ QuotaRecoveryNow =>
          /\ \A k \in EssentialKeys \ {WrittenKey} : localStorage'[k] = localStorage[k]
          /\ \A k \in StorageKeys \ (EssentialKeys \cup {WrittenKey}) :
                ~localStorage'[k].present
          /\ storageLog'[Len(storageLog')].result =
               IF localStorage'[WrittenKey] = storageLog'[Len(storageLog')].value
               THEN Str("true") ELSE Str("false")]_vars

\* a write hit the quota although essential keys were held, and the retry
\* went through after the other keys were removed
C32_Witness ==
  /\ storageLog # <<>>
  /\ storageLog[Len(storageLog)].attempts = 2
  /\ storageLog[Len(storageLog)].result = Str("true")
  /\ HeldKeys(localStorage) \cap EssentialKeys # {}

\* a write hit the quota and the retry failed as well
QuotaRetryFailed ==
  /\ storageLog # <<>>
  /\ storageLog[Len(storageLog)].attempts = 2
  /\ storageLog[Len(storageLog)].result = Str("false")

\* ==== AuthManager =========================================================
\* impl = "component" is the manager of part_013, which has no `initialized`
\* flag; the other two run core/auth.js.

Folders == {"auth", "admin", "membership", "public"}

HasInitializedFlag == impl # "component"

\* handleUnauthenticated(): where a visitor without a session is sent
handleUnauthenticated(folder) ==
  IF folder \in {"membership", "admin"} THEN "login" ELSE "none"

\* clearAuthData() / _clearStorage()
clearAuthData(store) ==
  [store EXCEPT !["authToken"] = null, !["userData"] = null,
                !["creatorData"] = null]

\* the end of init(): `this.initialized = true`
Completed(m) ==
  [m EXCEPT !.pc = "idle", !.initialized = HasInitializedFlag]

\* init(), up to its first await; refresh() clears `initialized` first
InitCall(isRefresh) ==
  /\ manager.pc = "idle"
  /\ href = "none"
  /\ LET m == [manager EXCEPT !.calls = @ + 1,
                              !.initialized = IF isRefresh THEN FALSE ELSE @]
     IN IF m.initialized
        THEN /\ manager' = m
             /\ UNCHANGED href
        ELSE IF ~localStorage["authToken"].present
        THEN /\ manager' = Completed([m EXCEPT !.outcome = "noToken",
                                               !.adminCheck = "none"])
             /\ href' = handleUnauthenticated(currentFolder)
        ELSE /\ manager' = [m EXCEPT !.pc = "validating", !.outcome = "none",
                                     !.adminCheck = "none"]
             /\ UNCHANGED href
  /\ UNCHANGED <<impl, authManager, authToken, toggleVars, feedVars, playerVars,
                 commentVars, linkVars, sideVars, storageVars, globals,
                 currentFolder,
                 drawerVars>>

\* init(), called when the page has loaded or by a script of the page
init ==
  /\ manager.calls < MaxInits
  /\ InitCall(FALSE)

\* refresh()
refresh ==
  /\ manager.calls < MaxInits
  /\ InitCall(TRUE)

\* both profile requests were answered: the rest of the try block and
\* handleAuthenticated() up to the admin check
validationSucceeds ==
  /\ manager.pc = "validating"
  /\ localStorage' = [localStorage EXCEPT !["userData"] = Str("v"),
                                          !["creatorData"] = Str("v")]
  /\ globals' = [globals EXCEPT !.currentUser = TRUE]
  /\ LET m == [manager EXCEPT !.user = TRUE, !.isAuthenticated = TRUE,
                              !.outcome = "valid"]
     IN IF currentFolder = "auth"
        THEN manager' = Completed(m) /\ href' = "feed"
        ELSE IF currentFolder = "admin"
        THEN manager' = [m EXCEPT !.pc = "adminCheck"] /\ UNCHANGED href
        ELSE manager' = Completed(m) /\ UNCHANGED href
  /\ UNCHANGED <<impl, authManager, authToken, toggleVars, feedVars, playerVars,
                 commentVars, linkVars, sideVars, isAvailable, quotaExceeded,
                 memoryStorage, storageLog, currentFolder,
                 drawerVars>>

\* one of the two requests was rejected: the catch block of init()
validationFails ==
  /\ manager.pc = "validating"
  /\ localStorage' = clearAuthData(localStorage)
  /\ manager' = Completed([manager EXCEPT !.outcome = "invalid"])
  /\ href' = handleUnauthenticated(currentFolder)
  /\ UNCHANGED <<impl, authManager, authToken, toggleVars, feedVars, playerVars,
                 commentVars, linkVars, sideVars, isAvailable, quotaExceeded,
                 memoryStorage, storageLog, globals, currentFolder,
                 drawerVars>>

\* the admin check of handleAuthenticated() settles
adminCheckSettles ==
  \E answer \in {"yes", "no", "failed"} :
    /\ manager.pc = "adminCheck"
    /\ manager' = Completed([manager EXCEPT
                               !.adminCheck = answer,
                               !.isAdmin = IF answer = "failed" THEN @
                                           ELSE answer = "yes"])
    /\ globals' = [globals EXCEPT !.isAdmin = IF answer = "yes" THEN TRUE ELSE @]
    /\ href' = IF answer = "yes" THEN "none" ELSE "feed"
    /\ UNCHANGED <<impl, authManager, authToken, toggleVars, feedVars, playerVars,
                   commentVars, linkVars, sideVars, storageVars, currentFolder,
                 drawerVars>>

InitAuth ==
  /\ impl \in {"component", "complete", "index"}
  /\ ComponentIdle
  /\ isAvailable = TRUE
  /\ quotaExceeded = FALSE
  /\ memoryStorage = [created |-> FALSE, items |-> [k \in StorageKeys |-> null]]
  /\ \E held \in {{}, {"authToken"}, EssentialKeys} :
       localStorage = [k \in StorageKeys |-> IF k \in held THEN Str("v") ELSE null]
  /\ storageLog = <<>>
  /\ manager = [user |-> FALSE, isAuthenticated |-> FALSE, isAdmin |-> FALSE,
                initialized |-> FALSE, pc |-> "idle", outcome |-> "none",
                adminCheck |-> "none", calls |-> 0]
  /\ globals = [currentUser |-> FALSE, isAdmin |-> FALSE]
  /\ currentFolder \in Folders
  /\ href = "none"
  /\ DrawerIdle

NextAuth ==
  \/ init
  \/ refresh
  \/ validationSucceeds
  \/ validationFails
  \/ adminCheckSettles

SpecAuth == InitAuth /\ [][NextAuth]_vars

HoldsSession(store) ==
  \E k \in EssentialKeys : store[k].present

\* C33: when the validation of the token fails in init() or refresh(), the
\* token, user and creator entries are removed from storage and the manager
\* is unauthenticated and exposes no user, also after an earlier success.
C33_FailedValidationSignsOut ==
  (manager.pc = "idle" /\ manager.outcome = "invalid") =>
    /\ ~HoldsSession(localStorage)
    /\ ~manager.isAuthenticated
    /\ ~manager.user
    /\ ~globals.currentUser

\* C34: once init() has completed, a visitor without a valid session on a
\* membership or admin page was sent to login, a signed-in user on an auth
\* page was sent to the feed, a signed-in user on an admin page whose admin
\* check was negative or failed was sent to the feed and is not marked
\* admin, and nobody else was sent anywhere.
C34_InitRedirects ==
  (manager.pc = "idle" /\ manager.outcome # "none") =>
    LET signedOut == manager.outcome \in {"noToken", "invalid"}
        refused == /\ manager.outcome = "valid"
                   /\ currentFolder = "admin"
                   /\ manager.adminCheck \in {"no", "failed"}
    IN /\ href = (IF signedOut /\ currentFolder \in {"membership", "admin"}
                  THEN "login"
                  ELSE IF manager.outcome = "valid" /\ currentFolder = "auth"
                  THEN "feed"
                  ELSE IF refused THEN "feed"
                  ELSE "none")
       /\ refused => ~manager.isAdmin /\ ~globals.isAdmin

\* the same without the admin mark: where init() sends the visitor
InitRedirectsOnly ==
  (manager.pc = "idle" /\ manager.outcome # "none") =>
    href = (IF /\ manager.outcome \in {"noToken", "invalid"}
               /\ currentFolder \in {"membership", "admin"}
            THEN "login"
            ELSE IF manager.outcome = "valid" /\ currentFolder = "auth"
            THEN "feed"
            ELSE IF /\ manager.outcome = "valid"
                    /\ currentFolder = "admin"
                    /\ manager.adminCheck \in {"no", "failed"}
            THEN "feed"
            ELSE "none")

\* ==== Like pairs ==========================================================

\* the one pair a toggle leads to from (f, n)
ToggledPair(f, n) == <<~f, IF f THEN n - 1 ELSE n + 1>>

LikePairOf(item) == <<item.is_liked, OrZero(item.likes_count)>>

StaysOnPair(item, start) ==
  /\ LikePairOf(item) \in {LikePairOf(start),
                           ToggledPair(start.is_liked, OrZero(start.likes_count))}
  /\ OrZero(item.likes_count) >= 0

\* C35: whatever toggles were invoked and however their requests settled,
\* the (is_liked, likes_count) pair of a post or comment is the pair it
\* started with or the one toggled pair, and the count is never negative.
C35_LikePairNeverDrifts ==
  /\ StaysOnPair(post, initial.post)
  /\ StaysOnPair(comment, initial.comment)

\* two like toggles overlapped and both failed, the earlier one first, and
\* the post shows the toggled pair
C35_Witness ==
  /\ Len(calls) >= 2
  /\ \A i \in DOMAIN calls : calls[i].kind = "like" /\ calls[i].status = "failed"
  /\ post.is_liked # initial.post.is_liked

\* ==== Lightbox: opens and closes that overlap ============================

\* C36: whenever the lightbox is not visible its player handle is empty, also
\* when closeLightbox ran while an openLightbox for a video post was waiting
\* for the comments.
C36_HiddenLightboxHasNoPlayer ==
  ~lightbox.show => lightbox.player = "none"

\* every open and close that was invoked has run to its end, and the drawer
\* is open: only an openLightbox opens it, and every close invoked with the
\* drawer open closes it, so no close was invoked after the last open
LastOpenStands ==
  /\ isDrawerOpen
  /\ closing = 0
  /\ opening = <<>>

\* C37: an openLightbox invoked while an earlier closeLightbox waits out its
\* delay is not undone by that close: once both have completed the lightbox
\* shows the opened post and, for a video, its player is still there.
C37_EarlierCloseDoesNotUndoOpen ==
  LastOpenStands =>
    /\ lightbox.show
    /\ lightbox.post = activePost
    /\ content_type(lightbox.post) = "video" => lightbox.player # "none"

\* ==== Rate-limit countdown ================================================

\* an interval callback runs in this step
TickNow == timers' # timers /\ Len(timers') <= Len(timers)

\* the rate-limit modal on screen is still counting: its interval is the one
\* started last
LiveModal ==
  /\ popup.show
  /\ popup.header = "Rate Limited"
  /\ popup.isLocked
  /\ timers # <<>>

\* what the interval of the modal on screen writes when it runs
OwnTick ==
  IF timers[Len(timers)] - 1 > 0
  THEN [popup EXCEPT !.btnText = WaitText(timers[Len(timers)] - 1)]
  ELSE PopupAfterCountdown(popup)

\* C38: a countdown only relabels or unlocks the rate-limit modal it was
\* started for: when another popup has replaced that modal, or a later
\* rate-limit modal is on screen, its callback leaves the lock flag, button
\* text and button action of the popup on screen as they are.
C38_StaleCountdownWritesNothing ==
  [][TickNow => \/ popup' = popup
                \/ LiveModal /\ popup' = OwnTick]_vars

\* ==== Notification drawer ================================================

\* clearAnimationTimeouts() / _clearTimers()
clearAnimationTimeouts == {}

\* an openDrawer that leaves the classes of the drawer alone
ClassLeft(cls) == cls

\* drawer.classList.add('isopen')
ClassAdded(cls) == TRUE

\* openDrawer(): one timer per card adds its active class
openDrawer ==
  /\ Len(drawerLog) < MaxDrawerCalls
  /\ drawerLog' = Append(drawerLog, "open")
  /\ notifications' = [notifications EXCEPT !.isDrawerOpen = TRUE,
                                            !.isopen = ClassAdded(@)]
  /\ animationTimeouts' =
       clearAnimationTimeouts \cup {[kind |-> "add", card |-> c] : c \in 1..NumCards}
  /\ UNCHANGED <<impl, authManager, authToken, toggleVars, feedVars, playerVars,
                 commentVars, linkVars, sideVars, storageVars, authVars>>

\* closeDrawer(): one timer per card removes its active class, a last one
\* removes the drawer's open class
closeDrawerAnimated ==
  /\ Len(drawerLog) < MaxDrawerCalls
  /\ drawerLog' = Append(drawerLog, "close")
  /\ notifications' = [notifications EXCEPT !.isDrawerOpen = FALSE]
  /\ animationTimeouts' =
       clearAnimationTimeouts
         \cup {[kind |-> "remove", card |-> c] : c \in 1..NumCards}
         \cup {[kind |-> "final", card |-> 0]}
  /\ UNCHANGED <<impl, authManager, authToken, toggleVars, feedVars, playerVars,
                 commentVars, linkVars, sideVars, storageVars, authVars>>

\* one of the live timers fires and runs its callback
animationTimeoutFires ==
  \E t \in animationTimeouts :
    /\ animationTimeouts' = animationTimeouts \ {t}
    /\ notifications' =
         CASE t.kind = "add" ->
                [notifications EXCEPT
                   !.active[t.card] = IF notifications.isDrawerOpen THEN TRUE ELSE @]
           [] t.kind = "remove" ->
                [notifications EXCEPT !.active[t.card] = FALSE]
           [] OTHER ->
                [notifications EXCEPT
                   !.isopen = IF ~notifications.isDrawerOpen THEN FALSE ELSE @]
    /\ UNCHANGED <<impl, authManager, authToken, toggleVars, feedVars, playerVars,
                   commentVars, linkVars, sideVars, storageVars, authVars, drawerLog>>

InitDrawer ==
  /\ impl \in {"component", "index"}
  /\ ComponentIdle
  /\ StorageIdle
  /\ AuthIdle
  /\ DrawerIdle

NextDrawer ==
  \/ openDrawer
  \/ closeDrawerAnimated
  \/ animationTimeoutFires

SpecDrawer == InitDrawer /\ [][NextDrawer]_vars

\* C39: after any open and close calls the drawer carries its open class
\* whenever isDrawerOpen is true, with timers pending or not, and once every
\* timer has fired it carries the class only then: no timer of an earlier
\* close removes the class after a later open.
C39_OpenClassFollowsFlag ==
  /\ notifications.isDrawerOpen => notifications.isopen
  /\ animationTimeouts = {} => (notifications.isopen => notifications.isDrawerOpen)

\* the drawer was opened, closed and opened again, and every timer has fired
C39_Witness ==
  /\ drawerLog = <<"open", "close", "open">>
  /\ animationTimeouts = {}
  /\ notifications.isopen

====
